---- MODULE Spec2Model ----
(***************************************************************************)
(* Model of the safety alert bot: the Motive webhook intake                *)
(* (app/main.py), the alert dispatcher (app/telegram_bot.py), the vehicle  *)
(* lookup service (app/services.py) and the unit cache (app/cache.py).     *)
(***************************************************************************)
EXTENDS Integers, Sequences, FiniteSets, TLC

(***************************************************************************)
(* Bounds of the model.                                                    *)
(***************************************************************************)
\* capacity the cache is constructed with (AsyncLRUCache(maxsize=...))
maxsize == 2
\* number of tasks that call the cache directly in SpecCache
NClients == 2

\* keys (vehicle ids): one more than the capacity, so that eviction happens
VehicleIds == 1..(maxsize + 1)

\* the result of dict.get / LRUCache.get for a missing key
None == "None"
UnitUnknown == "Unit Unknown"
\* unit names the provider may report
UnitNames == {"U7", "U8"}
CacheValues == UnitNames \cup {UnitUnknown}

\* nobody holds the lock
NoOne == 0

\* the tasks of SpecCache
Clients == 1..NClients
IdleClient == [pc |-> "idle", op |-> "none", key |-> 0, val |-> None]

VARIABLES
    vehicle_cache,  \* LRUCache contents, least recently used first: <<[k, v], ...>>
    lock,           \* holder of AsyncLRUCache._lock, or NoOne
    client,         \* SpecCache: the direct callers of get / set / clear
    lastOp,         \* history (SpecCache): the last completed cache operation
    touchOrder,     \* history (SpecCache): keys by their last touch, oldest first
    expect,         \* history (SpecCache): key -> value last set, None once k left
    req,            \* the webhook request being handled by motive_webhook
    nreq,           \* number of webhook requests received so far
    tasks,          \* the process_alert background tasks, in scheduling order
    lastFetch,      \* history: per id, how its last fetch ended: "http_404" while the
                    \* cached 404 is held, "error" while a failure left the id uncached
    details         \* SpecDetails: the call of fetch_speeding_details

vars == <<vehicle_cache, lock, client, lastOp, touchOrder, expect, req, nreq, tasks,
          lastFetch, details>>

cacheVars == <<vehicle_cache, lastOp, touchOrder, expect>>
histVars == <<lastOp, touchOrder, expect>>
intakeVars == <<req, nreq>>

(***************************************************************************)
(* cachetools.LRUCache as used by AsyncLRUCache.                           *)
(***************************************************************************)
CacheKeys(c) == {c[i].k : i \in 1..Len(c)}

CacheLookup(c, k) ==
    IF k \in CacheKeys(c)
    THEN (CHOOSE e \in {c[i] : i \in 1..Len(c)} : e.k = k).v
    ELSE None

CacheWithout(c, k) == SelectSeq(c, LAMBDA e : e.k # k)

\* LRUCache.get(key): the value or None
LRUGetResult(c, k) == CacheLookup(c, k)

\* a get that leaves the recency order alone (a cache that is not LRU on reads)
LRUAfterGetNoTouch(c, k) == c

\* LRUCache.get(key): a hit moves the key to the most recently used end
LRUAfterGet(c, k) ==
    IF k \in CacheKeys(c)
    THEN Append(CacheWithout(c, k), [k |-> k, v |-> CacheLookup(c, k)])
    ELSE c

\* LRUCache.popitem(): drops the least recently used entry
LRUPopitem(c) == Tail(c)

\* a set that never evicts
LRUAfterSetNoEvict(c, k, v, cap) == Append(CacheWithout(c, k), [k |-> k, v |-> v])

\* a set that adds an entry without removing the one the key has
LRUAfterSetAppending(c, k, v, cap) ==
    Append(IF Len(c) >= cap THEN Tail(c) ELSE c, [k |-> k, v |-> v])

\* LRUCache[key] = value: evicts while a new key does not fit, stores, and
\* marks the key most recently used
LRUAfterSet(c, k, v, cap) ==
    IF k \in CacheKeys(c)
    THEN Append(CacheWithout(c, k), [k |-> k, v |-> v])
    ELSE IF Len(c) + 1 > cap
         THEN Append(LRUPopitem(c), [k |-> k, v |-> v])
         ELSE Append(c, [k |-> k, v |-> v])

\* LRUCache.clear()
LRUAfterClear(c) == << >>

(***************************************************************************)
(* History of the cache: what "least recently touched" and "the value last *)
(* set" mean, recorded independently of the cache's own ordering.          *)
(***************************************************************************)
NoOp == [kind |-> "none", key |-> 0, val |-> None, res |-> None,
         before |-> << >>, lru |-> 0, by |-> NoOne]

SeqWithout(s, k) == SelectSeq(s, LAMBDA x : x # k)

\* the keys the history says are in the cache
Held == {x \in VehicleIds : expect[x] # None}

\* of the keys held, the one touched longest ago; 0 when none is held
LeastRecentlyTouched ==
    LET present == SelectSeq(touchOrder, LAMBDA x : x \in Held)
    IN IF present = << >> THEN 0 ELSE Head(present)

Touch(k) == touchOrder' = Append(SeqWithout(touchOrder, k), k)

\* the body of AsyncLRUCache.get, inside the lock
DoGet(k) == vehicle_cache' = LRUAfterGet(vehicle_cache, k)

\* the body of AsyncLRUCache.set, inside the lock
DoSet(k, v) == vehicle_cache' = LRUAfterSet(vehicle_cache, k, v, maxsize)

\* the body of AsyncLRUCache.clear, inside the lock
DoClear == vehicle_cache' = LRUAfterClear(vehicle_cache)

\* the history of a get
RecordGet(who, k) ==
    /\ lastOp' = [kind |-> "get", key |-> k, val |-> None,
                  res |-> LRUGetResult(vehicle_cache, k),
                  before |-> vehicle_cache,
                  lru |-> LeastRecentlyTouched, by |-> who]
    /\ IF expect[k] # None THEN Touch(k) ELSE UNCHANGED touchOrder
    /\ UNCHANGED expect

\* the history of a set
RecordSet(who, k, v) ==
    /\ lastOp' = [kind |-> "set", key |-> k, val |-> v, res |-> None,
                  before |-> vehicle_cache,
                  lru |-> LeastRecentlyTouched, by |-> who]
    /\ Touch(k)
    /\ expect' = [x \in VehicleIds |->
                        IF x = k THEN v
                        ELSE IF /\ k \notin Held
                                /\ Cardinality(Held) >= maxsize
                                /\ x = LeastRecentlyTouched
                             THEN None
                             ELSE expect[x]]

\* the history of a clear
RecordClear(who) ==
    /\ lastOp' = [kind |-> "clear", key |-> 0, val |-> None, res |-> None,
                  before |-> vehicle_cache,
                  lru |-> LeastRecentlyTouched, by |-> who]
    /\ expect' = [x \in VehicleIds |-> None]
    /\ UNCHANGED touchOrder

(***************************************************************************)
(* JSON values.  Every value has the same shape so that values of          *)
(* different JSON types can be compared.                                   *)
(***************************************************************************)
Fields == {"action", "id", "max_over_speed_in_kph", "max_posted_speed_limit_in_kph",
           "max_vehicle_speed", "driver_id", "vehicle_id", "status"}
IntFields == {"id", "driver_id", "vehicle_id"}
FloatFields == {"max_over_speed_in_kph", "max_posted_speed_limit_in_kph",
                "max_vehicle_speed"}

SPEEDING_EVENT_CREATED == "speeding_event_created"

Scalar(t, n, s) == [t |-> t, n |-> n, s |-> s]
Absent == Scalar("absent", 0, "")       \* the key is not in the object
Null == Scalar("null", 0, "")           \* JSON null
Num(n) == Scalar("num", n, "")          \* the JSON number n
Frac(n) == Scalar("frac", n, "")        \* the JSON number n + 0.5
NumStr(n) == Scalar("numstr", n, "")    \* the JSON string of the digits of n
Str(s) == Scalar("str", 0, s)           \* any other JSON string

NoFields == [f \in Fields |-> Absent]

JObject(d) == [t |-> "dict", n |-> 0, s |-> "", d |-> d, items |-> << >>]
JScalar(v) == [t |-> v.t, n |-> v.n, s |-> v.s, d |-> NoFields, items |-> << >>]
JArray(items) == [t |-> "list", n |-> 0, s |-> "", d |-> NoFields, items |-> items]

\* isinstance(x, dict), isinstance(x, list)
IsDict(x) == x.t = "dict"
IsList(x) == x.t = "list"

(***************************************************************************)
(* SpeedingEvent.model_validate (app/models.py).  Float fields are kept in *)
(* half kph so that n + 0.5 is an integer.                                 *)
(***************************************************************************)
IntOK(v) == v.t \in {"num", "numstr"}
IntOf(v) == v.n
FloatOK(v) == v.t \in {"num", "frac", "numstr"}
FloatOf(v) == IF v.t = "frac" THEN 2 * v.n + 1 ELSE 2 * v.n
StrOK(v) == v.t \in {"str", "numstr"}
OptionalStrOK(v) == v.t \in {"absent", "null", "str", "numstr"}

NoEvent == [id |-> 0, max_over_speed_in_kph |-> 0, max_posted_speed_limit_in_kph |-> 0,
            max_vehicle_speed |-> 0, driver_id |-> 0, vehicle_id |-> 0]

\* model_validate raises no ValidationError
Validates(d) ==
    /\ StrOK(d["action"])
    /\ \A f \in IntFields : IntOK(d[f])
    /\ \A f \in FloatFields : FloatOK(d[f])
    /\ OptionalStrOK(d["status"])

\* the SpeedingEvent model_validate returns
ModelValidate(d) ==
    IF Validates(d)
    THEN [id |-> IntOf(d["id"]),
          max_over_speed_in_kph |-> FloatOf(d["max_over_speed_in_kph"]),
          max_posted_speed_limit_in_kph |-> FloatOf(d["max_posted_speed_limit_in_kph"]),
          max_vehicle_speed |-> FloatOf(d["max_vehicle_speed"]),
          driver_id |-> IntOf(d["driver_id"]),
          vehicle_id |-> IntOf(d["vehicle_id"])]
    ELSE NoEvent

(***************************************************************************)
(* Request bodies and signatures.                                          *)
(***************************************************************************)
\* a body is the bytes of a JSON text, or bytes json.loads cannot parse
JsonBody(value) == [kind |-> "json", value |-> value]
MalformedBody == [kind |-> "malformed", value |-> JScalar(Null)]      \* b'{"a":'
UndecodableBody == [kind |-> "undecodable", value |-> JScalar(Null)]  \* b'\xff'

\* json.loads(body_bytes): the value, or the exception it raises
JsonLoads(body) ==
    CASE body.kind = "json" -> [exc |-> "none", value |-> body.value]
      [] body.kind = "malformed" -> [exc |-> "JSONDecodeError", value |-> body.value]
      [] body.kind = "undecodable" -> [exc |-> "UnicodeDecodeError", value |-> body.value]

webhook_secret == "secret"

\* the HMAC of the raw body under a key
Hmac(body, key) == [key |-> key, of |-> body]
\* request.headers.get("X-KT-Webhook-Signature", ""): header missing or empty
NoSignature == [key |-> "", of |-> MalformedBody]

\* verify_webhook_signature(body, signature, secret) returns without raising
VerifyWebhookSignature(body, signature, secret) ==
    /\ signature # NoSignature
    /\ signature = Hmac(body, secret)

\* the status codes of an authorization rejection
UnauthorizedCodes == {401, 403}

(***************************************************************************)
(* motive_webhook (app/main.py), step by step.                             *)
(***************************************************************************)
NoResponse == [status |-> 0, kind |-> "none", event_ids |-> << >>]

IdleReq == [pc |-> "idle", no |-> 0, body |-> MalformedBody, sig |-> NoSignature,
            parsed |-> FALSE, events_raw |-> << >>, i |-> 0,
            accepted_events |-> << >>, background_tasks |-> << >>,
            validated |-> 0, response |-> NoResponse]

\* the request as read by "await request.body()" and request.headers.get
ReceivedReq(no, body, sig) ==
    [IdleReq EXCEPT !.pc = "verify", !.no = no, !.body = body, !.sig = sig]

\* a handler that goes on to parse whatever the signature check said
VerifyStepIgnoringFailure(r, code) == [r EXCEPT !.pc = "parse"]

\* Step 2: verify_webhook_signature raises HTTPException, re-raised by the
\* handler, or returns
VerifyStep(r, code) ==
    IF VerifyWebhookSignature(r.body, r.sig, webhook_secret)
    THEN [r EXCEPT !.pc = "parse"]
    ELSE [r EXCEPT !.pc = "done",
                   !.response = [status |-> code, kind |-> "unauthorized",
                                 event_ids |-> << >>]]

\* a normalisation that drops a payload that is not an array
ParseStepListOnly(r) ==
    LET p == JsonLoads(r.body)
    IN CASE p.exc = "none" ->
              [r EXCEPT !.pc = "loop", !.parsed = TRUE, !.i = 1,
                        !.events_raw = IF IsList(p.value) THEN p.value.items
                                       ELSE << >>]
         [] p.exc = "JSONDecodeError" ->
              [r EXCEPT !.pc = "done",
                        !.response = [status |-> 400, kind |-> "error",
                                      event_ids |-> << >>]]
         [] OTHER ->
              [r EXCEPT !.pc = "done",
                        !.response = [status |-> 500, kind |-> "error",
                                      event_ids |-> << >>]]

\* Step 3 and the normalisation to a list: json.loads, JSONDecodeError -> 400,
\* any other exception -> 500
ParseStep(r) ==
    LET p == JsonLoads(r.body)
    IN CASE p.exc = "none" ->
              [r EXCEPT !.pc = "loop", !.parsed = TRUE, !.i = 1,
                        !.events_raw = IF IsList(p.value) THEN p.value.items
                                       ELSE <<p.value>>]
         [] p.exc = "JSONDecodeError" ->
              [r EXCEPT !.pc = "done",
                        !.response = [status |-> 400, kind |-> "error",
                                      event_ids |-> << >>]]
         [] OTHER ->
              [r EXCEPT !.pc = "done",
                        !.response = [status |-> 500, kind |-> "error",
                                      event_ids |-> << >>]]

\* a loop body that does not filter on the action
LoopStepAnyAction(r) ==
    IF r.i > Len(r.events_raw) THEN [r EXCEPT !.pc = "respond"]
    ELSE LET raw == r.events_raw[r.i]
         IN IF ~IsDict(raw) THEN [r EXCEPT !.i = r.i + 1]
            ELSE IF ~Validates(raw.d)
                 THEN [r EXCEPT !.i = r.i + 1, !.validated = r.validated + 1]
                 ELSE [r EXCEPT !.i = r.i + 1, !.validated = r.validated + 1,
                         !.background_tasks = Append(r.background_tasks, raw.d),
                         !.accepted_events =
                             Append(r.accepted_events, ModelValidate(raw.d).id)]

\* a loop body that schedules the element before it validates it
LoopStepSchedulingUnvalidated(r) ==
    IF r.i > Len(r.events_raw) THEN [r EXCEPT !.pc = "respond"]
    ELSE LET raw == r.events_raw[r.i]
         IN IF ~IsDict(raw) THEN [r EXCEPT !.i = r.i + 1]
            ELSE IF raw.d["action"] # Str(SPEEDING_EVENT_CREATED)
                 THEN [r EXCEPT !.i = r.i + 1]
                 ELSE IF ~Validates(raw.d)
                      THEN [r EXCEPT !.i = r.i + 1, !.validated = r.validated + 1,
                              !.background_tasks = Append(r.background_tasks, raw.d)]
                      ELSE [r EXCEPT !.i = r.i + 1, !.validated = r.validated + 1,
                              !.background_tasks = Append(r.background_tasks, raw.d),
                              !.accepted_events =
                                  Append(r.accepted_events, ModelValidate(raw.d).id)]

\* a loop that an element failing validation ends
LoopStepStoppingAtFailure(r) ==
    IF r.i > Len(r.events_raw) THEN [r EXCEPT !.pc = "respond"]
    ELSE LET raw == r.events_raw[r.i]
         IN IF ~IsDict(raw) THEN [r EXCEPT !.i = r.i + 1]
            ELSE IF raw.d["action"] # Str(SPEEDING_EVENT_CREATED)
                 THEN [r EXCEPT !.i = r.i + 1]
                 ELSE IF ~Validates(raw.d)
                      THEN [r EXCEPT !.pc = "respond", !.validated = r.validated + 1]
                      ELSE [r EXCEPT !.i = r.i + 1, !.validated = r.validated + 1,
                              !.background_tasks = Append(r.background_tasks, raw.d),
                              !.accepted_events =
                                  Append(r.accepted_events, ModelValidate(raw.d).id)]

\* one iteration of "for raw in events_raw"
LoopStep(r) ==
    IF r.i > Len(r.events_raw) THEN [r EXCEPT !.pc = "respond"]
    ELSE LET raw == r.events_raw[r.i]
         IN IF ~IsDict(raw) THEN [r EXCEPT !.i = r.i + 1]
            ELSE IF raw.d["action"] # Str(SPEEDING_EVENT_CREATED)
                 THEN [r EXCEPT !.i = r.i + 1]
                 ELSE IF ~Validates(raw.d)
                      THEN [r EXCEPT !.i = r.i + 1, !.validated = r.validated + 1]
                      ELSE [r EXCEPT !.i = r.i + 1, !.validated = r.validated + 1,
                              !.background_tasks = Append(r.background_tasks, raw.d),
                              !.accepted_events =
                                  Append(r.accepted_events, ModelValidate(raw.d).id)]

\* Step 4: the 200 response, "ignored" or "accepted"
RespondStep(r) ==
    IF r.accepted_events = << >>
    THEN [r EXCEPT !.pc = "done",
                   !.response = [status |-> 200, kind |-> "ignored",
                                 event_ids |-> << >>]]
    ELSE [r EXCEPT !.pc = "done",
                   !.response = [status |-> 200, kind |-> "accepted",
                                 event_ids |-> r.accepted_events]]

\* the loop of the handler run to its end
RECURSIVE RunLoop(_)
RunLoop(r) == IF r.pc = "loop" THEN RunLoop(LoopStep(r)) ELSE r

\* motive_webhook as a whole: the request record when the handler returns
Handle(body, sig, code) ==
    LET v == VerifyStep(ReceivedReq(0, body, sig), code)
        p == IF v.pc = "parse" THEN ParseStep(v) ELSE v
        l == RunLoop(p)
    IN IF l.pc = "respond" THEN RespondStep(l) ELSE l

(***************************************************************************)
(* The requests the model submits.                                         *)
(***************************************************************************)
\* longest batch besides the one-element batches
MaxBatch == 2

\* the payload of the concrete scenarios, with its id, vehicle and over-speed
BaseEvent(id, vid, over) ==
    [f \in Fields |->
        CASE f = "action" -> Str(SPEEDING_EVENT_CREATED)
          [] f = "id" -> Num(id)
          [] f = "max_over_speed_in_kph" -> Num(over)
          [] f = "max_posted_speed_limit_in_kph" -> Num(100)
          [] f = "max_vehicle_speed" -> Num(110)
          [] f = "driver_id" -> Num(5)
          [] f = "vehicle_id" -> Num(vid)
          [] f = "status" -> Null]

OtherAction == [BaseEvent(1, 1, 10) EXCEPT !["action"] = Str("other_event")]

PerturbValues == {Absent, Null, Str("x"), NumStr(3), Frac(3)}

\* one field of the base event removed or replaced
PerturbedEvents ==
    {[BaseEvent(1, 1, 10) EXCEPT ![f] = v] : f \in Fields, v \in PerturbValues}

NonObjects ==
    {JScalar(Num(1)), JScalar(Null), JScalar(Str(SPEEDING_EVENT_CREATED)),
     JArray(<<JObject(BaseEvent(1, 1, 10))>>), JArray(<< >>)}

IntakeElements ==
    {JObject(d) : d \in {BaseEvent(1, 1, 10), BaseEvent(2, 1, 5), OtherAction,
                         [OtherAction EXCEPT !["id"] = Absent]} \cup PerturbedEvents}
    \cup NonObjects

\* the elements of the longer batches
BatchElements ==
    {JObject(BaseEvent(1, 1, 10)), JObject(BaseEvent(2, 1, 5)), JObject(OtherAction),
     JObject([BaseEvent(1, 1, 10) EXCEPT !["vehicle_id"] = Absent]),
     JObject([BaseEvent(1, 1, 10) EXCEPT !["status"] = Frac(3)]),
     JScalar(Num(1)), JArray(<<JObject(BaseEvent(1, 1, 10))>>)}

SeqsUpTo(S, n) == UNION {[1..m -> S] : m \in 0..n}

IntakeBodies ==
    {JsonBody(e) : e \in IntakeElements}
    \cup {JsonBody(JArray(<<e>>)) : e \in IntakeElements}
    \cup {JsonBody(JArray(s)) : s \in SeqsUpTo(BatchElements, MaxBatch)}
    \cup {MalformedBody, UndecodableBody}

\* the header is missing or empty, the HMAC of the body, the HMAC under
\* another key, or the HMAC of another body
Signatures(body) ==
    {NoSignature, Hmac(body, webhook_secret), Hmac(body, "wrong"),
     Hmac(JsonBody(JArray(<< >>)), webhook_secret)}

(***************************************************************************)
(* get_vehicle_unit (app/services.py): the external call and its handling. *)
(***************************************************************************)
\* what "await client.get(...)", raise_for_status and response.json() give
NetOutcome(kind, number) == [kind |-> kind, number |-> number]

NetOutcomes ==
    {NetOutcome("ok", n) : n \in UnitNames \cup {None, ""}}   \* 200, number / no number / ""
    \cup {NetOutcome(k, None) :
            k \in {"http_401", "http_403", "http_404", "http_500",
                   "timeout",      \* httpx.RequestError
                   "malformed",    \* response.json() raises a decode error
                   "bad_shape"}}   \* the JSON is a list, or "vehicle" is null

\* the class of the exception the fetch raises
ExceptionOf(o) ==
    CASE o.kind = "ok" -> "none"
      [] o.kind \in {"http_401", "http_403", "http_404", "http_500"} -> "HTTPStatusError"
      [] o.kind = "timeout" -> "RequestError"
      [] o.kind = "malformed" -> "JSONDecodeError"
      [] o.kind = "bad_shape" -> "AttributeError"

Returned(unit, cached) == [raised |-> FALSE, unit |-> unit, cache |-> cached]
Raised == [raised |-> TRUE, unit |-> None, cache |-> FALSE]

\* a handling without the final "except Exception"
AfterFetchNoCatchAll(o) ==
    CASE ExceptionOf(o) = "none" ->
            Returned(IF o.number \in {None, ""} THEN UnitUnknown ELSE o.number, TRUE)
      [] ExceptionOf(o) = "HTTPStatusError" ->
            IF o.kind = "http_404" THEN Returned(UnitUnknown, TRUE)
            ELSE Returned(UnitUnknown, FALSE)
      [] ExceptionOf(o) = "RequestError" -> Returned(UnitUnknown, FALSE)
      [] OTHER -> Raised

\* a handling that caches "Unit Unknown" on every HTTP error status
AfterFetchCachingAllStatuses(o) ==
    CASE ExceptionOf(o) = "none" ->
            Returned(IF o.number \in {None, ""} THEN UnitUnknown ELSE o.number, TRUE)
      [] ExceptionOf(o) = "HTTPStatusError" -> Returned(UnitUnknown, TRUE)
      [] OTHER -> Returned(UnitUnknown, FALSE)

\* lines 112-154: what get_vehicle_unit returns after the fetch, and whether
\* it calls vehicle_cache.set first
AfterFetch(o) ==
    CASE ExceptionOf(o) = "none" ->
            Returned(IF o.number \in {None, ""} THEN UnitUnknown ELSE o.number, TRUE)
      [] ExceptionOf(o) = "HTTPStatusError" ->
            IF o.kind \in {"http_401", "http_403"} THEN Returned(UnitUnknown, FALSE)
            ELSE IF o.kind = "http_404" THEN Returned(UnitUnknown, TRUE)
            ELSE Returned(UnitUnknown, FALSE)
      [] ExceptionOf(o) = "RequestError" -> Returned(UnitUnknown, FALSE)
      [] OTHER -> Returned(UnitUnknown, FALSE)

\* "if cached_unit:" is a hit
IsHit(cached_unit) == cached_unit \notin {None, ""}

(***************************************************************************)
(* process_alert (app/telegram_bot.py).                                    *)
(***************************************************************************)
\* 0.621371, in millionths
KPH_TO_MPH == 621371
\* the 5 mph threshold
THRESHOLD_MPH == 5

\* a conversion that returns its argument, in the same unit as kph_to_mph
kph_to_mph_identity(kph) == kph * 1000000

\* kph_to_mph of a speed given in half kph; the result is in half millionths
\* of a mph
kph_to_mph(kph) == kph * KPH_TO_MPH

\* "if over_mph < 5"
BelowThreshold(event) ==
    kph_to_mph(event.max_over_speed_in_kph) < THRESHOLD_MPH * 2 * 1000000

NoOutcome == NetOutcome("none", None)

\* the position a task is at once it is scheduled (see NewTask)
ScheduledTask(no, idx, raw) ==
    [req |-> no, idx |-> idx, event_data |-> raw, pc |-> "scheduled",
     unit |-> None, outcome |-> NoOutcome, lookup |-> "none",
     sent |-> 0, netcalls |-> 0, wrote |-> FALSE, after |-> "none"]

\* background_tasks.add_task(process_alert, raw) for each accepted element
NewTasks(r) ==
    [i \in 1..Len(r.background_tasks) |-> ScheduledTask(r.no, i, r.background_tasks[i])]

TaskIds == 1..Len(tasks)

\* the event of task i, as process_alert validates it
EventOf(i) == ModelValidate(tasks[i].event_data)

\* the runner awaits the tasks of a request one after the other, once the
\* response has been sent
MayStart(i) ==
    /\ tasks[i].pc = "scheduled"
    /\ \A j \in TaskIds :
          (tasks[j].req = tasks[i].req /\ tasks[j].idx < tasks[i].idx)
             => tasks[j].pc = "done"

\* the handler has no await between reading the body and returning: no
\* task runs in between
HandlerNotRunning == req.pc \in {"idle", "done"}

\* lines 43-64: validation, conversion and the threshold filter (the bot is
\* created at startup, so "if bot is None" does not apply)
Start(i) ==
    /\ HandlerNotRunning
    /\ MayStart(i)
    /\ tasks' = [tasks EXCEPT ![i].pc =
                    IF ~Validates(tasks[i].event_data) THEN "raised"
                    ELSE IF BelowThreshold(EventOf(i)) THEN "done"
                    ELSE "lookup"]
    /\ UNCHANGED <<details, intakeVars, cacheVars, lock, client, lastFetch>>

\* get_vehicle_unit line 104, "async with self._lock" of get
CacheGetEnter(i) ==
    /\ HandlerNotRunning
    /\ tasks[i].pc = "lookup"
    /\ lock = NoOne
    /\ lock' = i
    /\ tasks' = [tasks EXCEPT ![i].pc = "get_locked"]
    /\ UNCHANGED <<details, intakeVars, cacheVars, client, lastFetch>>

\* a get that keeps the lock during the fetch that follows a miss
CacheGetKeepingLock(i) ==
    /\ HandlerNotRunning
    /\ tasks[i].pc = "get_locked"
    /\ lock = i
    /\ DoGet(EventOf(i).vehicle_id)
    /\ LET cached_unit == LRUGetResult(vehicle_cache, EventOf(i).vehicle_id)
       IN /\ lock' = IF IsHit(cached_unit) THEN NoOne ELSE i
          /\ tasks' = [tasks EXCEPT
                ![i].after = lastFetch[EventOf(i).vehicle_id],
                ![i].pc = IF IsHit(cached_unit) THEN "send" ELSE "net",
                ![i].unit = IF IsHit(cached_unit) THEN cached_unit ELSE None,
                ![i].lookup = IF IsHit(cached_unit) THEN "returned" ELSE "none",
                ![i].netcalls = IF IsHit(cached_unit) THEN tasks[i].netcalls
                                ELSE tasks[i].netcalls + 1]
    /\ UNCHANGED <<details, intakeVars, client, lastFetch, histVars>>

\* get_vehicle_unit lines 104-109: the cache get, a hit returns
CacheGet(i) ==
    /\ HandlerNotRunning
    /\ tasks[i].pc = "get_locked"
    /\ lock = i
    /\ DoGet(EventOf(i).vehicle_id)
    /\ lock' = NoOne
    /\ LET cached_unit == LRUGetResult(vehicle_cache, EventOf(i).vehicle_id)
       IN tasks' = [tasks EXCEPT
             ![i].after = lastFetch[EventOf(i).vehicle_id],
             ![i].pc = IF IsHit(cached_unit) THEN "send" ELSE "net",
             ![i].unit = IF IsHit(cached_unit) THEN cached_unit ELSE None,
             ![i].lookup = IF IsHit(cached_unit) THEN "returned" ELSE "none",
             ![i].netcalls = IF IsHit(cached_unit) THEN tasks[i].netcalls
                             ELSE tasks[i].netcalls + 1]
    /\ UNCHANGED <<details, intakeVars, client, lastFetch, histVars>>

\* get_vehicle_unit lines 112-154: the fetch ends with an outcome o of O
NetReturn(i, O) ==
    /\ HandlerNotRunning
    /\ tasks[i].pc = "net"
    /\ \E o \in O :
          LET r == AfterFetch(o)
              v == EventOf(i).vehicle_id
          IN /\ tasks' = [tasks EXCEPT
                   ![i].outcome = o,
                   ![i].unit = r.unit,
                   ![i].lookup = IF r.raised THEN "raised"
                                 ELSE IF r.cache THEN "none" ELSE "returned",
                   ![i].pc = IF r.raised THEN "raised"
                             ELSE IF r.cache THEN "set_lock" ELSE "send"]
             /\ lastFetch' = IF ~r.cache /\ v \notin CacheKeys(vehicle_cache)
                             THEN [lastFetch EXCEPT ![v] = "error"]
                             ELSE lastFetch
    /\ UNCHANGED <<details, intakeVars, cacheVars, lock, client>>

\* get_vehicle_unit lines 128 and 143, "async with self._lock" of set
CacheSetEnter(i) ==
    /\ HandlerNotRunning
    /\ tasks[i].pc = "set_lock"
    /\ lock = NoOne
    /\ lock' = i
    /\ tasks' = [tasks EXCEPT ![i].pc = "set_locked"]
    /\ UNCHANGED <<details, intakeVars, cacheVars, client, lastFetch>>

\* get_vehicle_unit lines 128-131 and 143-144: the cache set and the return
CacheSet(i) ==
    /\ HandlerNotRunning
    /\ tasks[i].pc = "set_locked"
    /\ lock = i
    /\ DoSet(EventOf(i).vehicle_id, tasks[i].unit)
    /\ lock' = NoOne
    /\ tasks' = [tasks EXCEPT ![i].pc = "send", ![i].lookup = "returned",
                              ![i].wrote = TRUE]
    /\ LET v == EventOf(i).vehicle_id
           after == LRUAfterSet(vehicle_cache, v, tasks[i].unit, maxsize)
       IN lastFetch' = [x \in VehicleIds |->
             IF x = v
             THEN IF tasks[i].outcome.kind = "http_404" \/ lastFetch[v] = "http_404"
                  THEN "http_404" ELSE "none"
             ELSE IF lastFetch[x] = "http_404" /\ x \notin CacheKeys(after)
                  THEN "none" ELSE lastFetch[x]]
    /\ UNCHANGED <<details, intakeVars, client, histVars>>

\* a delivery that is attempted a second time after a first failure
SendRetrying(i) ==
    /\ HandlerNotRunning
    /\ tasks[i].pc = "send"
    /\ \E ok \in BOOLEAN :
          tasks' = [tasks EXCEPT
                ![i] = IF ~ok /\ tasks[i].sent = 0
                       THEN [tasks[i] EXCEPT !.sent = 1]
                       ELSE [ScheduledTask(tasks[i].req, tasks[i].idx, tasks[i].event_data)
                                EXCEPT !.sent = tasks[i].sent + 1,
                                       !.pc = IF ok THEN "done" ELSE "raised"]]
    /\ UNCHANGED <<details, intakeVars, cacheVars, lock, client, lastFetch>>

\* a delivery whose failure replaces the response of its request
SendReportingFailure(i) ==
    /\ HandlerNotRunning
    /\ tasks[i].pc = "send"
    /\ \E ok \in BOOLEAN :
          /\ tasks' = [tasks EXCEPT
                ![i] = [ScheduledTask(tasks[i].req, tasks[i].idx, tasks[i].event_data)
                            EXCEPT !.sent = tasks[i].sent + 1,
                                   !.pc = IF ok THEN "done" ELSE "raised"]]
          /\ req' = IF ok \/ tasks[i].req # req.no THEN req
                    ELSE [req EXCEPT !.response = [status |-> 500, kind |-> "error",
                                                   event_ids |-> << >>]]
    /\ UNCHANGED <<details, nreq, cacheVars, lock, client, lastFetch>>

\* lines 81-92: bot.send_message returns, or raises and the exception is
\* logged and re-raised
Send(i) ==
    /\ HandlerNotRunning
    /\ tasks[i].pc = "send"
    /\ \E ok \in BOOLEAN :
          tasks' = [tasks EXCEPT
                ![i] = [ScheduledTask(tasks[i].req, tasks[i].idx, tasks[i].event_data)
                            EXCEPT !.sent = tasks[i].sent + 1,
                                   !.pc = IF ok THEN "done" ELSE "raised"]]
    /\ UNCHANGED <<details, intakeVars, cacheVars, lock, client, lastFetch>>

(***************************************************************************)
(* fetch_speeding_details (app/services.py).                               *)
(***************************************************************************)
\* the keys the normalisation reads from the event object
DetailKeys == {"start_location", "location", "lat", "latitude", "lon", "longitude",
               "max_vehicle_speed", "speed", "max_posted_speed_limit_in_kph",
               "posted_speed_limit_in_kph", "limit", "vehicle_id"}
\* the keys it reads from the location object
LocKeys == {"lat", "latitude", "lon", "longitude"}

Inf == Scalar("inf", 0, "")         \* the JSON number 1e999, decoded as float inf
AList == Scalar("list", 0, "")      \* the JSON array ["x"]
ADict == Scalar("dict", 0, "")      \* a JSON object; as a location, see EventObject

NoKeys == [k \in DetailKeys |-> Absent]
NoLoc == [k \in LocKeys |-> Absent]

\* a decoded event object: its keys, and the contents of the objects under
\* "start_location" and "location" where top gives them as ADict
EventObject(top, start_location, location) ==
    [top |-> top, start_location |-> start_location, location |-> location]

\* response.json(): a value of type t; for an object, the type of
\* data["speeding_event"] and the event object (the wrapped one if there is one,
\* else the top-level keys)
DetailsData(t, speeding_event, ev) == [t |-> t, speeding_event |-> speeding_event, ev |-> ev]

\* the outcome of client.get, raise_for_status and response.json()
DetailsResponse(kind, data) == [kind |-> kind, data |-> data]

\* dict.get(k): None for a missing key
Get(d, k) == IF d[k] = Absent THEN Null ELSE d[k]

\* bool(v)
Truthy(v) ==
    CASE v.t \in {"absent", "null"} -> FALSE
      [] v.t = "num" -> v.n # 0
      [] v.t = "str" -> v.s # ""
      [] OTHER -> TRUE

\* "a or b"
Or(a, b) == IF Truthy(a) THEN a ELSE b

\* line 51: event.get("start_location") or event.get("location") or {}
LocOf(ev) ==
    LET a == Get(ev.top, "start_location")
        b == Get(ev.top, "location")
        aTruthy == IF a.t = "dict" THEN \E k \in LocKeys : ev.start_location[k] # Absent
                   ELSE Truthy(a)
        bTruthy == IF b.t = "dict" THEN \E k \in LocKeys : ev.location[k] # Absent
                   ELSE Truthy(b)
    IN CASE aTruthy -> [isdict |-> a.t = "dict", d |-> ev.start_location]
         [] bTruthy -> [isdict |-> b.t = "dict", d |-> ev.location]
         [] OTHER -> [isdict |-> TRUE, d |-> NoLoc]

\* float(v) if v is not None else None, with TypeError and ValueError caught
ToFloat(v) ==
    CASE v.t \in {"num", "frac", "inf"} -> v
      [] v.t = "numstr" -> Num(v.n)
      [] OTHER -> Null

\* int(v) if v is not None else None, with TypeError and ValueError caught;
\* int(float("inf")) raises OverflowError
IntRaises(v) == v.t = "inf"
ToInt(v) ==
    CASE v.t = "num" -> v
      [] v.t \in {"frac", "numstr"} -> Num(v.n)
      [] OTHER -> Null

DetailsResult(kind, exc, lat, lon, speed, limit, vehicle_id) ==
    [kind |-> kind, exc |-> exc, lat |-> lat, lon |-> lon, speed |-> speed,
     limit |-> limit, vehicle_id |-> vehicle_id]
ReturnedNone == DetailsResult("None", "none", Null, Null, Null, Null, Null)
RaisedDetails(exc) == DetailsResult("raised", exc, Null, Null, Null, Null, Null)

\* lines 49-90: the normalised record of an event object
Normalize(ev) ==
    LET loc == LocOf(ev)
        lat0 == IF loc.isdict THEN Or(Get(loc.d, "lat"), Get(loc.d, "latitude")) ELSE Null
        lon0 == IF loc.isdict THEN Or(Get(loc.d, "lon"), Get(loc.d, "longitude")) ELSE Null
        lat == IF lat0 = Null THEN Or(Get(ev.top, "lat"), Get(ev.top, "latitude")) ELSE lat0
        lon == IF lon0 = Null THEN Or(Get(ev.top, "lon"), Get(ev.top, "longitude")) ELSE lon0
        speed == Or(Get(ev.top, "max_vehicle_speed"), Get(ev.top, "speed"))
        limit == Or(Or(Get(ev.top, "max_posted_speed_limit_in_kph"),
                       Get(ev.top, "posted_speed_limit_in_kph")),
                    Get(ev.top, "limit"))
        vehicle_id == Get(ev.top, "vehicle_id")
    IN IF IntRaises(vehicle_id) THEN RaisedDetails("OverflowError")
       ELSE DetailsResult("record", "none", ToFloat(lat), ToFloat(lon), ToFloat(speed),
                          ToFloat(limit), ToInt(vehicle_id))

\* lines 28-90: what fetch_speeding_details does with the outcome of its request
FetchSpeedingDetails(resp) ==
    CASE resp.kind # "ok" -> ReturnedNone                  \* lines 33-41
      [] resp.data.t # "dict" -> RaisedDetails("AttributeError")   \* line 44, data.get
      [] OTHER -> Normalize(resp.data.ev)

IdleDetails == [pc |-> "idle", event_id |-> 0, response |-> DetailsResponse("none",
                    DetailsData("null", Absent, EventObject(NoKeys, NoLoc, NoLoc))),
                result |-> ReturnedNone]

(***************************************************************************)
(* The actions of the handler.                                             *)
(***************************************************************************)
Verify ==
    /\ req.pc = "verify"
    /\ \E code \in UnauthorizedCodes : req' = VerifyStep(req, code)
    /\ UNCHANGED <<details, nreq, tasks, cacheVars, lock, client, lastFetch>>

Parse ==
    /\ req.pc = "parse"
    /\ req' = ParseStep(req)
    /\ UNCHANGED <<details, nreq, tasks, cacheVars, lock, client, lastFetch>>

\* a loop that awaits process_alert for an accepted element instead of
\* handing it to the background tasks
LoopAwaitingAlert ==
    /\ req.pc = "loop"
    /\ LET n == LoopStep(req)
       IN /\ req' = n
          /\ tasks' = IF Len(n.background_tasks) > Len(req.background_tasks)
                      THEN Append(tasks,
                               [ScheduledTask(req.no, Len(n.background_tasks),
                                              n.background_tasks[Len(n.background_tasks)])
                                   EXCEPT !.pc = "done", !.sent = 1])
                      ELSE tasks
    /\ UNCHANGED <<details, nreq, cacheVars, lock, client, lastFetch>>

Loop ==
    /\ req.pc = "loop"
    /\ req' = LoopStep(req)
    /\ UNCHANGED <<details, nreq, tasks, cacheVars, lock, client, lastFetch>>

\* the response is returned and the request's background tasks are handed
\* to the runner
Respond ==
    /\ req.pc = "respond"
    /\ req' = RespondStep(req)
    /\ tasks' = tasks \o NewTasks(req)
    /\ UNCHANGED <<details, nreq, cacheVars, lock, client, lastFetch>>

(***************************************************************************)
(* SpecIntake: motive_webhook applied to one request out of IntakeBodies.  *)
(***************************************************************************)
InitIntake ==
    /\ vehicle_cache = << >>
    /\ lock = NoOne
    /\ client = [c \in Clients |-> IdleClient]
    /\ lastOp = NoOp
    /\ touchOrder = << >>
    /\ expect = [x \in VehicleIds |-> None]
    /\ nreq = 1
    /\ tasks = << >>
    /\ lastFetch = [x \in VehicleIds |-> "none"]
    /\ details = IdleDetails
    /\ \E body \in IntakeBodies : \E sig \in Signatures(body) :
          req = ReceivedReq(1, body, sig)

NextIntake == Verify \/ Parse \/ Loop \/ Respond

SpecIntake == InitIntake /\ [][NextIntake]_vars

(***************************************************************************)
(* Spec: webhook requests and their background tasks.                      *)
(***************************************************************************)
\* number of webhook requests
MaxRequests == 2
\* number of events the requests carry in total
MaxTasks == 3

\* one event per vehicle, 10 kph over the limit
MainElements == {JObject(BaseEvent(v, v, 10)) : v \in VehicleIds}

MainBodies ==
    {JsonBody(JArray(s)) : s \in SeqsUpTo(MainElements, MaxBatch) \ {<< >>}}

\* the outcomes of the fetch in Spec: two unit names, not found, unauthorized,
\* timeout
MainOutcomes ==
    {NetOutcome("ok", "U7"), NetOutcome("ok", "U8"),
     NetOutcome("http_404", None), NetOutcome("http_401", None),
     NetOutcome("timeout", None)}

\* "await request.body()" and request.headers.get of a new request
Receive ==
    /\ req.pc \in {"idle", "done"}
    /\ nreq < MaxRequests
    /\ \E body \in MainBodies :
       \E sig \in {Hmac(body, webhook_secret), NoSignature} :
          /\ Len(tasks) + Len(body.value.items) <= MaxTasks
          \* one unsigned request per batch length 1 is enough here; SpecIntake
          \* has the others
          /\ sig = NoSignature => Len(body.value.items) = 1
          /\ req' = ReceivedReq(nreq + 1, body, sig)
    /\ nreq' = nreq + 1
    /\ UNCHANGED <<details, tasks, cacheVars, lock, client, lastFetch>>

Init ==
    /\ vehicle_cache = << >>
    /\ lock = NoOne
    /\ client = [c \in Clients |-> IdleClient]
    /\ lastOp = NoOp
    /\ touchOrder = << >>
    /\ expect = [x \in VehicleIds |-> None]
    /\ req = IdleReq
    /\ nreq = 0
    /\ tasks = << >>
    /\ lastFetch = [x \in VehicleIds |-> "none"]
    /\ details = IdleDetails

Next ==
    \/ Receive
    \/ Verify
    \/ Parse
    \/ Loop
    \/ Respond
    \/ \E i \in TaskIds : Start(i)
    \/ \E i \in TaskIds : CacheGetEnter(i)
    \/ \E i \in TaskIds : CacheGet(i)
    \/ \E i \in TaskIds : NetReturn(i, MainOutcomes)
    \/ \E i \in TaskIds : CacheSetEnter(i)
    \/ \E i \in TaskIds : CacheSet(i)
    \/ \E i \in TaskIds : Send(i)

Spec == Init /\ [][Next]_vars

(***************************************************************************)
(* SpecAlert: the background tasks of one answered request, over every     *)
(* outcome of the fetch and a choice of cache contents.                    *)
(***************************************************************************)
\* over-speeds of 10 kph (6.2 mph), 8.5 kph (5.3 mph), 8 kph (4.97 mph) and
\* 5 kph (3.1 mph)
AlertElements ==
    {JObject(BaseEvent(v, v, 10)) : v \in VehicleIds}
    \cup {JObject([BaseEvent(1, 1, 10) EXCEPT !["max_over_speed_in_kph"] = Frac(8)]),
          JObject(BaseEvent(2, 1, 8)), JObject(BaseEvent(1, 1, 5))}

AlertBodies ==
    {JsonBody(JArray(s)) : s \in SeqsUpTo(AlertElements, MaxBatch) \ {<< >>}}

\* cache contents earlier lookups can have left
AlertCaches ==
    {<< >>}
    \cup {<<[k |-> k, v |-> v]>> : k \in VehicleIds, v \in {"U7", UnitUnknown}}
    \cup {[i \in 1..maxsize |-> [k |-> i, v |-> "U8"]]}

InitAlert ==
    /\ vehicle_cache \in AlertCaches
    /\ lock = NoOne
    /\ client = [c \in Clients |-> IdleClient]
    /\ lastOp = NoOp
    /\ touchOrder = << >>
    /\ expect = [x \in VehicleIds |-> None]
    /\ nreq = 1
    /\ lastFetch = [x \in VehicleIds |-> "none"]
    /\ details = IdleDetails
    /\ \E body \in AlertBodies :
          /\ req = [Handle(body, Hmac(body, webhook_secret), 403) EXCEPT !.no = 1]
          /\ tasks = NewTasks(req)

NextAlert ==
    \/ \E i \in TaskIds : Start(i)
    \/ \E i \in TaskIds : CacheGetEnter(i)
    \/ \E i \in TaskIds : CacheGet(i)
    \/ \E i \in TaskIds : NetReturn(i, NetOutcomes)
    \/ \E i \in TaskIds : CacheSetEnter(i)
    \/ \E i \in TaskIds : CacheSet(i)
    \/ \E i \in TaskIds : Send(i)

SpecAlert == InitAlert /\ [][NextAlert]_vars

\* the event loop runs a task that is ready, and every fetch ends (timeout=10.0)
SpecAlertFair == SpecAlert /\ WF_vars(NextAlert)

(***************************************************************************)
(* SpecCache: tasks calling AsyncLRUCache.get / set / clear directly.      *)
(***************************************************************************)
\* "async with self._lock" of get: the caller enters once the lock is free
ClientEnterGet(c) ==
    /\ client[c].pc = "idle"
    /\ lock = NoOne
    /\ \E k \in VehicleIds :
          client' = [client EXCEPT ![c] = [pc |-> "locked", op |-> "get",
                                           key |-> k, val |-> None]]
    /\ lock' = c
    /\ UNCHANGED <<details, cacheVars, intakeVars, tasks, lastFetch>>

\* "async with self._lock" of set
ClientEnterSet(c) ==
    /\ client[c].pc = "idle"
    /\ lock = NoOne
    /\ \E k \in VehicleIds, v \in CacheValues :
          client' = [client EXCEPT ![c] = [pc |-> "locked", op |-> "set",
                                           key |-> k, val |-> v]]
    /\ lock' = c
    /\ UNCHANGED <<details, cacheVars, intakeVars, tasks, lastFetch>>

\* "async with self._lock" of clear
ClientEnterClear(c) ==
    /\ client[c].pc = "idle"
    /\ lock = NoOne
    /\ client' = [client EXCEPT ![c] = [pc |-> "locked", op |-> "clear",
                                        key |-> 0, val |-> None]]
    /\ lock' = c
    /\ UNCHANGED <<details, cacheVars, intakeVars, tasks, lastFetch>>

\* AsyncLRUCache.get: return self._cache.get(key), then the lock is released
ClientGet(c) ==
    /\ client[c].pc = "locked" /\ client[c].op = "get"
    /\ lock = c
    /\ DoGet(client[c].key)
    /\ RecordGet(c, client[c].key)
    /\ lock' = NoOne
    /\ client' = [client EXCEPT ![c] = IdleClient]
    /\ UNCHANGED <<details, intakeVars, tasks, lastFetch>>

\* AsyncLRUCache.set: self._cache[key] = value, then the lock is released
ClientSet(c) ==
    /\ client[c].pc = "locked" /\ client[c].op = "set"
    /\ lock = c
    /\ DoSet(client[c].key, client[c].val)
    /\ RecordSet(c, client[c].key, client[c].val)
    /\ lock' = NoOne
    /\ client' = [client EXCEPT ![c] = IdleClient]
    /\ UNCHANGED <<details, intakeVars, tasks, lastFetch>>

\* AsyncLRUCache.clear: self._cache.clear(), then the lock is released
ClientClear(c) ==
    /\ client[c].pc = "locked" /\ client[c].op = "clear"
    /\ lock = c
    /\ DoClear
    /\ RecordClear(c)
    /\ lock' = NoOne
    /\ client' = [client EXCEPT ![c] = IdleClient]
    /\ UNCHANGED <<details, intakeVars, tasks, lastFetch>>

InitCache ==
    /\ vehicle_cache = << >>
    /\ lock = NoOne
    /\ client = [c \in Clients |-> IdleClient]
    /\ lastOp = NoOp
    /\ touchOrder = << >>
    /\ expect = [x \in VehicleIds |-> None]
    /\ req = IdleReq
    /\ nreq = 0
    /\ tasks = << >>
    /\ lastFetch = [x \in VehicleIds |-> "none"]
    /\ details = IdleDetails

NextCache ==
    \/ \E c \in Clients : ClientEnterGet(c)
    \/ \E c \in Clients : ClientEnterSet(c)
    \/ \E c \in Clients : ClientEnterClear(c)
    \/ \E c \in Clients : ClientGet(c)
    \/ \E c \in Clients : ClientSet(c)
    \/ \E c \in Clients : ClientClear(c)

SpecCache == InitCache /\ [][NextCache]_vars

(***************************************************************************)
(* SpecDetails: one call of fetch_speeding_details, over the outcomes of   *)
(* its request and the shapes of the decoded response.                     *)
(***************************************************************************)
EventIds == {1, 2}

BaseTop ==
    [k \in DetailKeys |->
        CASE k = "start_location" -> ADict
          [] k = "max_vehicle_speed" -> Num(110)
          [] k = "max_posted_speed_limit_in_kph" -> Num(100)
          [] k = "vehicle_id" -> Num(1)
          [] OTHER -> Absent]

BaseLoc == [k \in LocKeys |-> IF k = "lat" THEN Num(4)
                              ELSE IF k = "lon" THEN Num(5) ELSE Absent]

DetailValues ==
    {Absent, Null, Num(0), Num(3), Frac(3), NumStr(3), Str("x"), Str(""), Inf, AList, ADict}

\* the base event object with one key, or one key of its location, replaced
DetailEvents ==
    {EventObject([BaseTop EXCEPT ![k] = v], BaseLoc, NoLoc) :
        k \in DetailKeys \ {"location"}, v \in DetailValues}
    \cup {EventObject([BaseTop EXCEPT !["location"] = v], BaseLoc, BaseLoc) :
            v \in DetailValues}
    \cup {EventObject(BaseTop, [BaseLoc EXCEPT ![k] = v], NoLoc) :
            k \in LocKeys, v \in DetailValues}
    \cup {EventObject(NoKeys, NoLoc, NoLoc)}

DetailResponses ==
    {DetailsResponse(k, IdleDetails.response.data) :
        k \in {"http_401", "http_404", "http_500", "timeout", "malformed"}}
    \* the decoded response is an array, a number, null or a string
    \cup {DetailsResponse("ok", DetailsData(t, Absent, EventObject(NoKeys, NoLoc, NoLoc))) :
            t \in {"list", "num", "null", "str"}}
    \* an object: the event under "speeding_event", or at the top level
    \cup {DetailsResponse("ok", DetailsData("dict", se, ev)) :
            se \in {ADict, Absent, Null, Str("x")}, ev \in DetailEvents}

detailsOthers == <<vehicle_cache, lock, client, lastOp, touchOrder, expect, req, nreq,
                   tasks, lastFetch>>

\* fetch_speeding_details(event_id) is called
DetailsCall ==
    /\ details.pc = "idle"
    /\ \E e \in EventIds : details' = [details EXCEPT !.pc = "sleep", !.event_id = e]
    /\ UNCHANGED detailsOthers

\* line 25: await asyncio.sleep(5)
DetailsSleep ==
    /\ details.pc = "sleep"
    /\ details' = [details EXCEPT !.pc = "get"]
    /\ UNCHANGED detailsOthers

\* lines 27-90: the request ends and the function returns or raises
DetailsReturn ==
    /\ details.pc = "get"
    /\ \E resp \in DetailResponses :
          details' = [details EXCEPT !.pc = "done", !.response = resp,
                                     !.result = FetchSpeedingDetails(resp)]
    /\ UNCHANGED detailsOthers

InitDetails == Init

NextDetails == DetailsCall \/ DetailsSleep \/ DetailsReturn

SpecDetails == InitDetails /\ [][NextDetails]_vars

(***************************************************************************)
(* Claims about the cache.                                                 *)
(***************************************************************************)

\* C5: a get returns the value of the last set of its key unless the key
\* has since been evicted by capacity or cleared (then it returns None), and
\* a set of a new key into a full cache evicts exactly one entry, the one
\* least recently touched by a get hit or a set.
C5_SetGetAndLRUEviction ==
    /\ lastOp.kind = "get" => lastOp.res = expect[lastOp.key]
    /\ (/\ lastOp.kind = "set"
        /\ lastOp.key \notin CacheKeys(lastOp.before)
        /\ Len(lastOp.before) = maxsize)
       => /\ CacheKeys(lastOp.before) \ CacheKeys(vehicle_cache) = {lastOp.lru}
          /\ CacheKeys(vehicle_cache) =
                (CacheKeys(lastOp.before) \ {lastOp.lru}) \cup {lastOp.key}
          /\ \A x \in CacheKeys(vehicle_cache) \ {lastOp.key} :
                CacheLookup(vehicle_cache, x) = CacheLookup(lastOp.before, x)

\* a set evicted a key that was not the oldest insertion: an earlier get hit
\* or re-set had refreshed the head of the cache
C5_Witness ==
    /\ lastOp.kind = "set"
    /\ lastOp.key \notin CacheKeys(lastOp.before)
    /\ Len(lastOp.before) = maxsize
    /\ lastOp.lru \notin CacheKeys(vehicle_cache)
    /\ \E x \in VehicleIds : expect[x] # None /\ x # lastOp.key

\* C6: the cache never holds more than maxsize entries, whatever the
\* interleaving of get, set and clear.
C6_AtMostMaxsize == Len(vehicle_cache) <= maxsize

\* the cache is full right after a set that had to evict
C6_Witness ==
    /\ Len(vehicle_cache) = maxsize
    /\ lastOp.kind = "set"
    /\ Len(lastOp.before) = maxsize
    /\ lastOp.key \notin CacheKeys(lastOp.before)
    /\ lock = NoOne

(***************************************************************************)
(* Claims about the intake.                                                *)
(***************************************************************************)
ValidSignature == req.sig # NoSignature /\ req.sig = Hmac(req.body, webhook_secret)

TasksOf(no) == SelectSeq(tasks, LAMBDA t : t.req = no)

\* C1: a request whose signature header is missing, empty or not the HMAC of
\* the raw body is rejected whole: the body is never parsed, no element is
\* validated, no process_alert task is scheduled, and the response is an
\* authorization rejection.
C1_BadSignatureRejectsWhole ==
    (req.pc # "idle" /\ ~ValidSignature) =>
        /\ req.pc \in {"verify", "done"}
        /\ ~req.parsed
        /\ req.validated = 0
        /\ req.accepted_events = << >>
        /\ req.background_tasks = << >>
        /\ TasksOf(req.no) = << >>
        /\ req.pc = "done" => /\ req.response.kind = "unauthorized"
                              /\ req.response.status \in {401, 403}

\* a rejected request whose body is a batch holding an acceptable event
C1_Witness ==
    /\ req.pc = "done"
    /\ ~ValidSignature
    /\ req.body = JsonBody(JArray(<<JObject(BaseEvent(1, 1, 10)), JObject(OtherAction)>>))
    /\ req.response.kind = "unauthorized"

\* the elements the handler has gone through
C7_Seen == SubSeq(req.events_raw, 1, IF req.i - 1 < Len(req.events_raw)
                                      THEN req.i - 1 ELSE Len(req.events_raw))

C7_RequiredFieldsValidate(x) ==
    /\ x.d["action"].t \in {"str", "numstr"}
    /\ \A f \in {"id", "driver_id", "vehicle_id"} : x.d[f].t \in {"num", "numstr"}
    /\ \A f \in {"max_over_speed_in_kph", "max_posted_speed_limit_in_kph",
                 "max_vehicle_speed"} : x.d[f].t \in {"num", "frac", "numstr"}

\* the claim's condition: an object, the action, the required fields
C7_AcceptableAsClaimed(x) ==
    /\ x.t = "dict"
    /\ x.d["action"] = Str("speeding_event_created")
    /\ C7_RequiredFieldsValidate(x)

\* the condition with the optional status: absent, null or a string
C7_Acceptable(x) ==
    /\ C7_AcceptableAsClaimed(x)
    /\ x.d["status"].t \in {"absent", "null", "str", "numstr"}

C7_AcceptedAre(sel) ==
    (req.pc \in {"loop", "respond", "done"} /\ req.parsed) =>
        /\ Len(req.background_tasks) = Len(sel)
        /\ Len(req.accepted_events) = Len(sel)
        /\ \A j \in 1..Len(sel) : /\ req.background_tasks[j] = sel[j].d
                                  /\ req.accepted_events[j] = sel[j].d["id"].n
        /\ req.pc = "done" =>
              /\ Len(TasksOf(req.no)) = Len(sel)
              /\ \A j \in 1..Len(sel) : TasksOf(req.no)[j].event_data = sel[j].d

\* C7 as claimed: an element is accepted iff it is an object, its action is
\* speeding_event_created and all required fields validate.
C7_AcceptedIffRequiredValid ==
    C7_AcceptedAre(SelectSeq(C7_Seen, C7_AcceptableAsClaimed))

\* C7 (amended): an element is accepted iff it is an object, its action is
\* speeding_event_created, all required fields validate and the optional
\* status is absent, null or a string; every other element is skipped and
\* no task is scheduled for it.
C7_AcceptedIffValid ==
    C7_AcceptedAre(SelectSeq(C7_Seen, C7_Acceptable))

\* a batch of which one element was accepted and one skipped for a missing
\* required field
C7_Witness ==
    /\ req.pc = "done"
    /\ ValidSignature
    /\ Len(req.events_raw) = 2
    /\ Len(req.accepted_events) = 1
    /\ \E j \in 1..2 : /\ req.events_raw[j].t = "dict"
                       /\ req.events_raw[j].d["vehicle_id"] = Absent
    /\ Len(TasksOf(req.no)) = 1

\* an element submitted on its own: a single top-level value, or, for an
\* element that is itself an array, the batch holding only it
C8_Individually(x) ==
    IF x.t = "list" THEN JsonBody(JArray(<<x>>)) ELSE JsonBody(x)

C8_Handled(body) == Handle(body, Hmac(body, webhook_secret), 403)

RECURSIVE C8_AcceptedOneByOne(_)
C8_AcceptedOneByOne(xs) ==
    IF xs = << >> THEN << >>
    ELSE C8_Handled(C8_Individually(Head(xs))).accepted_events
            \o C8_AcceptedOneByOne(Tail(xs))

RECURSIVE C8_ScheduledOneByOne(_)
C8_ScheduledOneByOne(xs) ==
    IF xs = << >> THEN << >>
    ELSE C8_Handled(C8_Individually(Head(xs))).background_tasks
            \o C8_ScheduledOneByOne(Tail(xs))

\* C8: a single top-level value x and the batch [x] give the same accepted
\* ids, the same scheduled tasks and the same response; the accepted ids and
\* tasks of a batch are those of its elements submitted one by one, in order.
C8_BatchEqualsSingles ==
    (req.pc = "done" /\ ValidSignature /\ req.parsed) =>
        /\ req.body.value.t # "list" =>
              LET one == C8_Handled(JsonBody(JArray(<<req.body.value>>)))
              IN /\ one.accepted_events = req.accepted_events
                 /\ one.background_tasks = req.background_tasks
                 /\ one.response = req.response
        /\ req.body.value.t = "list" =>
              /\ req.accepted_events = C8_AcceptedOneByOne(req.body.value.items)
              /\ req.background_tasks = C8_ScheduledOneByOne(req.body.value.items)

\* an accepted event submitted as a single top-level object
C8_Witness ==
    /\ req.pc = "done"
    /\ ValidSignature
    /\ req.body.value.t = "dict"
    /\ req.accepted_events = <<2>>
    /\ req.response.kind = "accepted"

\* C9: a validly signed body that parses gets 200, "accepted" with the
\* accepted ids or "ignored" when there are none; a validly signed body that
\* does not parse gets 400.
C9_ResponseByBody ==
    (req.pc = "done" /\ ValidSignature) =>
        IF req.body.kind = "json"
        THEN /\ req.response.status = 200
             /\ req.accepted_events # << >> =>
                   /\ req.response.kind = "accepted"
                   /\ req.response.event_ids = req.accepted_events
             /\ req.accepted_events = << >> => req.response.kind = "ignored"
        ELSE req.response.status = 400

(***************************************************************************)
(* Claims about the vehicle lookup and the dispatcher.                     *)
(***************************************************************************)
\* the lookup of task i has gone past its fetch
C2_Fetched(i) == tasks[i].outcome.kind # "none"

C2_NoLookupRaises ==
    \A i \in TaskIds :
        /\ tasks[i].lookup # "raised"
        /\ tasks[i].pc = "raised" => tasks[i].sent = 1
        /\ tasks[i].pc = "send" =>
              /\ tasks[i].lookup = "returned"
              /\ tasks[i].unit \in {"U7", "U8", "Unit Unknown"}
        /\ (C2_Fetched(i) /\ ~(tasks[i].outcome.kind = "ok"
                               /\ tasks[i].outcome.number \in {"U7", "U8"}))
              => tasks[i].unit = "Unit Unknown"

\* C2: get_vehicle_unit never raises: whatever the vehicle, the cache and
\* the outcome of the fetch, the call ends by returning a unit name, and for
\* every outcome other than a 200 carrying a unit number that name is
\* "Unit Unknown".
C2_LookupNeverRaises ==
    /\ []C2_NoLookupRaises
    /\ \A i \in 1..MaxBatch :
          (i \in TaskIds /\ tasks[i].pc = "lookup")
             ~> (i \in TaskIds /\ tasks[i].pc = "send"
                              /\ tasks[i].lookup = "returned")

\* a lookup whose response was not decodable has returned "Unit Unknown"
C2_Witness ==
    \E i \in TaskIds :
        /\ tasks[i].pc = "send"
        /\ tasks[i].outcome.kind \in {"malformed", "bad_shape"}
        /\ tasks[i].lookup = "returned"
        /\ tasks[i].unit = "Unit Unknown"

\* C3: once a lookup of v has completed with a 404, every later lookup of v,
\* while the entry of v is neither evicted nor cleared, returns "Unit
\* Unknown" from the cache without a network call.
C3_NotFoundIsCached ==
    \A i \in TaskIds :
        (tasks[i].after = "http_404"
            /\ tasks[i].pc \in {"net", "set_lock", "set_locked", "send"})
        => /\ tasks[i].pc = "send"
           /\ tasks[i].netcalls = 0
           /\ tasks[i].unit = "Unit Unknown"

C4_Failures == {"http_401", "http_403", "http_500", "timeout", "malformed", "bad_shape"}

\* C4: a lookup that ends in a 401, 403, other non-404 HTTP error, transport
\* error or unexpected exception writes no cache entry, and the next lookup
\* of the same id, still uncached, issues the network call again.
C4_FailuresNotCached ==
    \A i \in TaskIds :
        /\ (tasks[i].pc = "send" /\ tasks[i].outcome.kind \in C4_Failures)
              => /\ ~tasks[i].wrote
                 /\ tasks[i].unit = "Unit Unknown"
                 /\ tasks[i].lookup = "returned"
        /\ tasks[i].outcome.kind \in C4_Failures => tasks[i].pc \in {"send", "raised", "done"}
        /\ (tasks[i].after = "error"
               /\ tasks[i].pc \in {"net", "set_lock", "set_locked", "send"})
              => tasks[i].netcalls = 1

\* the second lookup of an id is on the network after the first failed
C4_Witness ==
    \E i, j \in TaskIds :
        /\ i # j
        /\ tasks[i].event_data["vehicle_id"] = tasks[j].event_data["vehicle_id"]
        /\ tasks[i].pc = "done" /\ tasks[i].sent = 1
        /\ tasks[j].pc = "net"
        /\ tasks[j].after = "error"
        /\ tasks[j].netcalls = 1

\* the over-speed of the raw event in half kph, and whether its conversion
\* (x 0.621371) is below 5 mph
C10_HalfKph(i) ==
    LET x == tasks[i].event_data["max_over_speed_in_kph"]
    IN IF x.t = "frac" THEN 2 * x.n + 1 ELSE 2 * x.n

C10_Below(i) == C10_HalfKph(i) * 621371 < 5 * 2 * 1000000

\* C10: an event whose over-speed converts to less than 5 mph is dropped
\* without a lookup, a notification or an error; at or above 5 mph the
\* alert goes on to the lookup and the delivery.
C10_ThresholdFilter ==
    \A i \in TaskIds :
        tasks[i].pc # "scheduled" =>
            IF C10_Below(i)
            THEN /\ tasks[i].pc = "done"
                 /\ tasks[i].sent = 0
                 /\ tasks[i].netcalls = 0
                 /\ tasks[i].lookup = "none"
            ELSE \/ tasks[i].pc \in {"lookup", "get_locked", "net", "set_lock",
                                     "set_locked", "send"}
                 \/ tasks[i].pc \in {"done", "raised"} /\ tasks[i].sent = 1

\* a 5 kph event was dropped after a 10 kph event was delivered
C10_Witness ==
    \E i, j \in TaskIds :
        /\ tasks[i].event_data["max_over_speed_in_kph"] = Num(10)
        /\ tasks[i].pc = "done" /\ tasks[i].sent = 1
        /\ tasks[j].event_data["max_over_speed_in_kph"] = Num(5)
        /\ tasks[j].pc = "done" /\ tasks[j].sent = 0

(***************************************************************************)
(* C11: fetch_speeding_details never raises: whatever the outcome of its   *)
(* request and the shape of the decoded response (wrapped event, top-level *)
(* object, or a value that is not an object), the call returns a           *)
(* normalized record or None.                                              *)
(***************************************************************************)
C11_DetailsNeverRaise ==
    details.pc = "done" => details.result.kind \in {"record", "None"}

(***************************************************************************)
(* C12: within a validly signed batch, an element that is not an object,   *)
(* has another action or fails validation never prevents another element   *)
(* from being accepted and scheduled: the accepted ids and the scheduled   *)
(* tasks are those of the batch without the failing elements.              *)
(***************************************************************************)
C12_Fails(x) ==
    \/ ~IsDict(x)
    \/ x.d["action"] # Str(SPEEDING_EVENT_CREATED)
    \/ ~Validates(x.d)

C12_Kept == SelectSeq(req.events_raw, LAMBDA x : ~C12_Fails(x))

C12_FailuresAreIsolated ==
    (req.pc = "done" /\ req.parsed) =>
        LET alone == C8_Handled(JsonBody(JArray(C12_Kept)))
        IN /\ req.accepted_events = alone.accepted_events
           /\ req.background_tasks = alone.background_tasks
           /\ Len(req.accepted_events) = Len(C12_Kept)
           /\ \A k \in 1..Len(C12_Kept) :
                 /\ req.accepted_events[k] = IntOf(C12_Kept[k].d["id"])
                 /\ req.background_tasks[k] = C12_Kept[k].d
           /\ TasksOf(req.no) = NewTasks([alone EXCEPT !.no = req.no])

\* a batch whose first element fails validation and whose second is accepted
C12_Witness ==
    /\ req.pc = "done" /\ req.parsed
    /\ Len(req.events_raw) = 2
    /\ IsDict(req.events_raw[1]) /\ ~Validates(req.events_raw[1].d)
    /\ req.events_raw[1].d["action"] = Str(SPEEDING_EVENT_CREATED)
    /\ ~C12_Fails(req.events_raw[2])
    /\ req.response.event_ids = <<IntOf(req.events_raw[2].d["id"])>>
    /\ Len(tasks) = 1 /\ tasks[1].event_data = req.events_raw[2].d

(***************************************************************************)
(* C13: the webhook response is independent of enrichment and delivery:    *)
(* for the same body and signature the HTTP status and the response        *)
(* content are the same whatever the outcomes of the vehicle lookups and   *)
(* of the deliveries of the scheduled events.                              *)
(***************************************************************************)
\* the response as a function of the body and the signature alone (and of the
\* status verify_webhook_signature chooses for a rejection)
C13_ResponseOf(body, sig, status) ==
    Handle(body, sig, IF status \in UnauthorizedCodes THEN status ELSE 403).response

C13_ResponseIndependent ==
    req.pc = "done" => req.response = C13_ResponseOf(req.body, req.sig, req.response.status)

\* the second request is answered "accepted"; one of its events has failed to
\* be delivered, an event of the first request was delivered and a lookup
\* has failed
C13_Witness ==
    /\ req.pc = "done" /\ req.no = 2
    /\ req.response.status = 200 /\ req.response.kind = "accepted"
    /\ \E i \in TaskIds : tasks[i].req = 2 /\ tasks[i].pc = "raised" /\ tasks[i].sent = 1
    /\ \E j \in TaskIds : tasks[j].req = 1 /\ tasks[j].pc = "done" /\ tasks[j].sent = 1
    /\ \E v \in VehicleIds : lastFetch[v] = "error"

(***************************************************************************)
(* C14: background alert tasks are independent units of work: a task that  *)
(* hangs on an external call, or that ends by re-raising a delivery        *)
(* exception, never prevents or delays the task of another accepted event  *)
(* (of the same batch or of another request), and never blocks the intake  *)
(* of further requests.                                                    *)
(***************************************************************************)
\* task i is suspended on its fetch or on its delivery
C14_Hung(i) == tasks[i].pc \in {"net", "send"}

\* task i has ended by re-raising the exception of its delivery
C14_Reraised(i) == tasks[i].pc = "raised" /\ tasks[i].sent = 1

\* while a task hangs or after it has re-raised, every scheduled task can take
\* its first step and a further request can be received
C14_TasksIndependent ==
    \A i \in TaskIds :
        (HandlerNotRunning /\ (C14_Hung(i) \/ C14_Reraised(i))) =>
            /\ \A j \in TaskIds \ {i} : tasks[j].pc = "scheduled" => ENABLED Start(j)
            /\ (nreq < MaxRequests /\ Len(tasks) < MaxTasks) => ENABLED Receive

(***************************************************************************)
(* C15: a cache entry is never overwritten: once a value has been set for  *)
(* vehicle id v, no later get_vehicle_unit call, in any interleaving of    *)
(* the background tasks, changes the value stored for v; the entry keeps   *)
(* its first value until it is evicted or the cache is cleared.            *)
(***************************************************************************)
C15_NeverOverwritten ==
    [][\A v \in VehicleIds :
          (v \in CacheKeys(vehicle_cache) /\ v \in CacheKeys(vehicle_cache'))
             => CacheLookup(vehicle_cache', v) = CacheLookup(vehicle_cache, v)]_vars

(***************************************************************************)
(* C16: lookups are not single-flight: two get_vehicle_unit tasks for the  *)
(* same never-yet-cached id that both read the cache before either writes  *)
(* it both issue the network call; in every such interleaving the cache    *)
(* stays consistent: it holds at most one entry for that id, whose value   *)
(* is the one written by the last completed set.                           *)
(***************************************************************************)
\* the tasks that complete vehicle_cache.set for id v in this step
C16_SettersOf(v) ==
    {i \in TaskIds : /\ tasks[i].pc = "set_locked" /\ tasks'[i].pc = "send"
                     /\ EventOf(i).vehicle_id = v}

C16_EveryMissFetches ==
    \A i \in TaskIds : tasks[i].pc \in {"net", "set_lock", "set_locked"}
                           => tasks[i].netcalls = 1

C16_OneEntryPerId ==
    /\ Len(vehicle_cache) <= maxsize
    /\ \A a, b \in 1..Len(vehicle_cache) :
          vehicle_cache[a].k = vehicle_cache[b].k => a = b

C16_LastSetWins ==
    \A v \in VehicleIds :
        IF C16_SettersOf(v) # {}
        THEN \A i \in C16_SettersOf(v) : CacheLookup(vehicle_cache', v) = tasks[i].unit
        ELSE v \in CacheKeys(vehicle_cache')
                => /\ v \in CacheKeys(vehicle_cache)
                   /\ CacheLookup(vehicle_cache', v) = CacheLookup(vehicle_cache, v)

C16_NotSingleFlightButConsistent ==
    /\ [](C16_EveryMissFetches /\ C16_OneEntryPerId)
    /\ [][C16_LastSetWins]_vars

\* two tasks for the same id have both missed, both fetched (with different
\* answers) and both written; the cache holds one entry for the id
C16_Witness ==
    \E i, j \in TaskIds :
        /\ i # j
        /\ EventOf(i).vehicle_id = EventOf(j).vehicle_id
        /\ tasks[i].pc = "send" /\ tasks[j].pc = "send"
        /\ tasks[i].netcalls = 1 /\ tasks[j].netcalls = 1
        /\ tasks[i].wrote /\ tasks[j].wrote
        /\ tasks[i].unit # tasks[j].unit
        /\ tasks[i].after = "none" /\ tasks[j].after = "none"
        /\ Len(SelectSeq(vehicle_cache,
                         LAMBDA e : e.k = EventOf(i).vehicle_id)) = 1
        /\ CacheLookup(vehicle_cache, EventOf(i).vehicle_id)
              \in {tasks[i].unit, tasks[j].unit}

(***************************************************************************)
(* C17: the cache lock is held only inside a single get, set or clear: in  *)
(* no reachable state does a task hold the lock while it is suspended on a *)
(* network call or on the fixed delay, so a task waiting on a slow         *)
(* external request never blocks the cache access of another task.         *)
(***************************************************************************)
\* task i is between "async with self._lock" and the end of that block
C17_InsideOperation(i) == tasks[i].pc \in {"get_locked", "set_locked"}

\* task i is suspended on its fetch or on its delivery
C17_Suspended(i) == tasks[i].pc \in {"net", "send"}

C17_LockOnlyInsideOperation ==
    /\ lock \in TaskIds \cup {NoOne}
    /\ \A i \in TaskIds : lock = i <=> C17_InsideOperation(i)
    /\ \A i \in TaskIds : C17_Suspended(i) => lock # i
    \* a task waiting for the lock waits for a task that is inside an
    \* operation, or can take the lock
    /\ \A j \in TaskIds :
          (tasks[j].pc \in {"lookup", "set_lock"} /\ HandlerNotRunning)
             => \/ ENABLED CacheGetEnter(j)
                \/ ENABLED CacheSetEnter(j)
                \/ (lock \in TaskIds /\ C17_InsideOperation(lock)
                       /\ (ENABLED CacheGet(lock) \/ ENABLED CacheSet(lock)))

\* task i is suspended on its fetch while task j holds the lock for its get
C17_Witness ==
    \E i, j \in TaskIds :
        /\ i # j
        /\ tasks[i].pc = "net"
        /\ tasks[j].pc = "get_locked" /\ lock = j

(***************************************************************************)
(* C18: the dispatcher never retries delivery: each scheduled              *)
(* process_alert task invokes the notification transport at most once, and *)
(* when that invocation fails the task ends by re-raising the exception,   *)
(* without a further send attempt.                                         *)
(***************************************************************************)
C18_AtMostOneSend ==
    \A i \in TaskIds :
        /\ tasks[i].sent <= 1
        /\ tasks[i].pc \notin {"done", "raised"} => tasks[i].sent = 0

\* the invocation of the transport moves the task from "send" to its end, and
\* a task that has raised takes no further step
C18_FailureEndsTask ==
    \A i \in TaskIds :
        /\ (tasks[i].pc = "send" /\ tasks'[i] # tasks[i])
              => /\ tasks'[i].pc \in {"done", "raised"}
                 /\ tasks'[i].sent = 1
        /\ tasks[i].pc = "raised" => tasks'[i] = tasks[i]

C18_NoRetry == []C18_AtMostOneSend /\ [][C18_FailureEndsTask]_vars

\* a task whose one delivery attempt has failed
C18_Witness ==
    \E i \in TaskIds : tasks[i].pc = "raised" /\ tasks[i].sent = 1

(***************************************************************************)
(* C19: for every accepted event, no step of its process_alert task        *)
(* (re-validation, vehicle lookup, delivery) occurs before the HTTP        *)
(* response of the request that scheduled it has been produced; the        *)
(* handler only enqueues the task and never waits for a lookup or a        *)
(* delivery before responding.                                             *)
(***************************************************************************)
\* the response of request number no has been produced
C19_Responded(no) ==
    \/ no < req.no
    \/ no = req.no /\ req.pc = "done" /\ req.response # NoResponse

\* a task the runner has not started
C19_Untouched(t) ==
    t.pc = "scheduled" /\ t.sent = 0 /\ t.netcalls = 0 /\ ~t.wrote /\ t.unit = None

C19_OnlyAfterResponse ==
    \A i \in TaskIds : ~C19_Untouched(tasks[i]) => C19_Responded(tasks[i].req)

\* while the handler runs no task takes a step, and when the response is
\* produced the tasks of the request have not been started
C19_HandlerDoesNotWait ==
    /\ ~HandlerNotRunning => \A i \in TaskIds : tasks'[i] = tasks[i]
    /\ (req.pc = "respond" /\ req'.pc = "done")
          => \A i \in 1..Len(tasks') : tasks'[i].req = req.no => C19_Untouched(tasks'[i])

C19_NoStepBeforeResponse == []C19_OnlyAfterResponse /\ [][C19_HandlerDoesNotWait]_vars

\* the second request has been answered "accepted"; its task is at its fetch
\* and a task of the first request is still at its own
C19_Witness ==
    /\ req.no = 2 /\ req.pc = "done" /\ req.response.kind = "accepted"
    /\ \E i, j \in TaskIds :
          /\ tasks[i].req = 2 /\ tasks[i].pc = "net"
          /\ tasks[j].req = 1 /\ tasks[j].pc = "net"

(***************************************************************************)
(* C20: when a request's response is produced, the process_alert tasks     *)
(* scheduled by the request correspond one-to-one and in order with the    *)
(* entries of event_ids (duplicate ids yield duplicate tasks), and every   *)
(* scheduled raw object passes the dispatcher's re-validation, so          *)
(* process_alert never fails at its validation step.                       *)
(***************************************************************************)
C20_TasksMatchEventIds ==
    req.pc = "done" =>
        LET ts == TasksOf(req.no)
            ids == req.response.event_ids
        IN /\ Len(ts) = Len(ids)
           /\ req.response.status = 200 => Len(ts) = Len(C12_Kept)
           /\ \A k \in 1..Len(ts) :
                 /\ ts[k].idx = k
                 /\ ts[k].event_data = C12_Kept[k].d
                 \* process_alert line 51 does not raise
                 /\ Validates(ts[k].event_data)
                 /\ ModelValidate(ts[k].event_data).id = ids[k]

\* a batch of twice the same event: two ids, two tasks
C20_Witness ==
    /\ req.pc = "done"
    /\ req.response.event_ids = <<1, 1>>
    /\ Len(tasks) = 2
    /\ tasks[1].event_data = tasks[2].event_data
    /\ tasks[1].idx = 1 /\ tasks[2].idx = 2

====
